---- MODULE Spec2Model ----
(***************************************************************************)
(* Receipt OCR application (src/src/App.js): the React component App, its  *)
(* state hooks, the asynchronous file handler handleFileChange with its    *)
(* two extraction strategies, handleStart, handleTryAgain, the derived     *)
(* totals and the screen chosen by the render function.                    *)
(*                                                                         *)
(* A JavaScript string is a sequence of one-character strings.  A JS       *)
(* number is an exact decimal [nan, m, e] standing for m / 10^e, or NaN.   *)
(* A nullable value is a sequence of length 0 (null) or 1 (the value).     *)
(***************************************************************************)
EXTENDS Integers, Sequences, FiniteSets, TLC

(* ------------------------------ characters ----------------------------- *)

Digits == {"0", "1", "2", "3", "4", "5", "6", "7", "8", "9"}

DigitVal(c) ==
  CASE c = "0" -> 0 [] c = "1" -> 1 [] c = "2" -> 2 [] c = "3" -> 3
    [] c = "4" -> 4 [] c = "5" -> 5 [] c = "6" -> 6 [] c = "7" -> 7
    [] c = "8" -> 8 [] c = "9" -> 9

DigitChar(d) ==
  CASE d = 0 -> "0" [] d = 1 -> "1" [] d = 2 -> "2" [] d = 3 -> "3"
    [] d = 4 -> "4" [] d = 5 -> "5" [] d = 6 -> "6" [] d = 7 -> "7"
    [] d = 8 -> "8" [] d = 9 -> "9"

\* \s of a regular expression and the white space String.prototype.trim removes
WhiteSpace == {" ", "\n", "\t"}

\* the character class [\d,.] of totalRegex and tipRegex
NumeralClass == Digits \cup {",", "."}

LowerChar(c) ==
  CASE c = "A" -> "a" [] c = "C" -> "c" [] c = "D" -> "d" [] c = "E" -> "e"
    [] c = "G" -> "g" [] c = "H" -> "h" [] c = "I" -> "i" [] c = "L" -> "l"
    [] c = "N" -> "n" [] c = "O" -> "o" [] c = "P" -> "p" [] c = "R" -> "r"
    [] c = "S" -> "s" [] c = "T" -> "t" [] c = "U" -> "u"
    [] OTHER -> c

(* ------------------------------- strings ------------------------------- *)

toLowerCase(s) == [i \in 1..Len(s) |-> LowerChar(s[i])]

\* String.prototype.includes
includes(s, sub) ==
  \E i \in 1..(Len(s) - Len(sub) + 1) : SubSeq(s, i, i + Len(sub) - 1) = sub

\* first index >= p whose character is outside the set cls (Len(s)+1 if none)
RunEnd(s, p, cls) ==
  CHOOSE q \in p..(Len(s) + 1) :
    /\ (q = Len(s) + 1 \/ s[q] \notin cls)
    /\ \A k \in p..(q - 1) : s[k] \in cls

\* String.prototype.trim
trim(s) ==
  LET a == RunEnd(s, 1, WhiteSpace)
      keep == {k \in 1..Len(s) : s[k] \notin WhiteSpace}
  IN  IF keep = {} THEN <<>>
      ELSE SubSeq(s, a, CHOOSE k \in keep : \A j \in keep : j <= k)

\* String.prototype.split('\n')
RECURSIVE splitLines(_)
splitLines(s) ==
  LET nl == {k \in 1..Len(s) : s[k] = "\n"}
      q == CHOOSE k \in nl : \A j \in nl : k <= j
  IN  IF nl = {} THEN <<s>>
      ELSE <<SubSeq(s, 1, q - 1)>> \o splitLines(SubSeq(s, q + 1, Len(s)))

RECURSIVE flatten(_)
flatten(xss) == IF xss = <<>> THEN <<>> ELSE Head(xss) \o flatten(Tail(xss))

(* ------------------------------- numbers ------------------------------- *)

NaN == [nan |-> TRUE, m |-> 0, e |-> 0]

Num(m, e) == [nan |-> FALSE, m |-> m, e |-> e]

RECURSIVE Pow10(_)
Pow10(n) == IF n = 0 THEN 1 ELSE 10 * Pow10(n - 1)

RECURSIVE DigitsToNat(_)
DigitsToNat(ds) ==
  IF ds = <<>> THEN 0
  ELSE 10 * DigitsToNat(SubSeq(ds, 1, Len(ds) - 1)) + DigitVal(ds[Len(ds)])

RECURSIVE NatToDigits(_)
NatToDigits(n) ==
  IF n < 10 THEN <<DigitChar(n)>>
  ELSE NatToDigits(n \div 10) \o <<DigitChar(n % 10)>>

\* the + of two JS numbers: NaN is absorbing
NumAdd(a, b) ==
  IF a.nan \/ b.nan THEN NaN
  ELSE LET e == IF a.e >= b.e THEN a.e ELSE b.e
       IN  Num(a.m * Pow10(e - a.e) + b.m * Pow10(e - b.e), e)

\* parseFloat: skip leading white space, then the longest prefix that is a
\* decimal literal (digits, optionally a dot and digits; or a dot and
\* digits); NaN when there is no such prefix.  Signs, exponents and
\* "Infinity" never occur in the strings the handlers hand to parseFloat.
parseFloat(s) ==
  LET a == RunEnd(s, 1, WhiteSpace)
      b == RunEnd(s, a, Digits)
      hasDot == b <= Len(s) /\ s[b] = "."
      c == IF hasDot THEN RunEnd(s, b + 1, Digits) ELSE b
      int == SubSeq(s, a, b - 1)
      frac == IF hasDot THEN SubSeq(s, b + 1, c - 1) ELSE <<>>
  IN  IF int = <<>> /\ frac = <<>> THEN NaN
      ELSE Num(DigitsToNat(int \o frac), Len(frac))

\* Number.prototype.toFixed(2): "NaN" for NaN, else the nearest multiple of
\* 0.01 written with two fractional digits
toFixed2(x) ==
  IF x.nan THEN <<"N", "a", "N">>
  ELSE LET cents == IF x.e <= 2 THEN x.m * Pow10(2 - x.e)
                    ELSE (x.m + 5 * Pow10(x.e - 3)) \div Pow10(x.e - 2)
       IN  NatToDigits(cents \div 100)
             \o <<".", DigitChar((cents % 100) \div 10), DigitChar(cents % 10)>>

\* String.prototype.replace(/[$,]/g, '')
RECURSIVE stripDollarComma(_)
stripDollarComma(s) ==
  IF s = <<>> THEN <<>>
  ELSE (IF Head(s) \in {"$", ","} THEN <<>> ELSE <<Head(s)>>)
         \o stripDollarComma(Tail(s))

\* String.prototype.replace('$', ''): removes the first "$" only
removeFirstDollar(s) ==
  LET ds == {k \in 1..Len(s) : s[k] = "$"}
      q == CHOOSE k \in ds : \A j \in ds : k <= j
  IN  IF ds = {} THEN s ELSE SubSeq(s, 1, q - 1) \o SubSeq(s, q + 1, Len(s))

\* App.js line 33
moneyToFloat(s) ==
  LET t == trim(stripDollarComma(s))
  IN  parseFloat(IF t = <<>> THEN <<"0">> ELSE t)

(* ------------------- Strategy A: labelled amounts ---------------------- *)

NoMatch == [ok |-> FALSE, cap |-> <<>>, end |-> 0]

\* labelRegexAt with the marker optional: /<label>\s*(us)?\$?\s*(...)/i
labelRegexAt_optionalUs(s, label, p) ==
  LET p1 == p + Len(label)
      p2 == RunEnd(s, p1, WhiteSpace)
      p3 == IF p2 + 1 <= Len(s)
               /\ toLowerCase(SubSeq(s, p2, p2 + 1)) = <<"u", "s">>
              THEN p2 + 2 ELSE p2
      p4 == IF p3 <= Len(s) /\ s[p3] = "$" THEN p3 + 1 ELSE p3
      p5 == RunEnd(s, p4, WhiteSpace)
      r  == RunEnd(s, p5, NumeralClass)
      ks == {k \in (p5 + 1)..(r - 3) :
               s[k] = "." /\ s[k + 1] \in Digits /\ s[k + 2] \in Digits}
      k  == CHOOSE x \in ks : \A y \in ks : y <= x
  IN  IF p1 - 1 > Len(s) THEN NoMatch
      ELSE IF toLowerCase(SubSeq(s, p, p1 - 1)) # label THEN NoMatch
      ELSE IF ks = {} THEN NoMatch
      ELSE [ok |-> TRUE, cap |-> SubSeq(s, p5, k + 2), end |-> k + 2]

\* One attempt of /<label>\s*us\$?\s*([\d,.]+\.\d{2})/i at position p.
\* The greedy [\d,.]+ takes the whole run of class characters and gives
\* characters back until a dot and two digits follow: the capture ends at
\* the last ".dd" of the run that leaves at least one character before it.
labelRegexAt(s, label, p) ==
  LET p1 == p + Len(label)
      p2 == RunEnd(s, p1, WhiteSpace)
      p3 == p2 + 2
      p4 == IF p3 <= Len(s) /\ s[p3] = "$" THEN p3 + 1 ELSE p3
      p5 == RunEnd(s, p4, WhiteSpace)
      r  == RunEnd(s, p5, NumeralClass)
      ks == {k \in (p5 + 1)..(r - 3) :
               s[k] = "." /\ s[k + 1] \in Digits /\ s[k + 2] \in Digits}
      k  == CHOOSE x \in ks : \A y \in ks : y <= x
  IN  IF p1 - 1 > Len(s) THEN NoMatch
      ELSE IF toLowerCase(SubSeq(s, p, p1 - 1)) # label THEN NoMatch
      ELSE IF p3 - 1 > Len(s) THEN NoMatch
      ELSE IF toLowerCase(SubSeq(s, p2, p3 - 1)) # <<"u", "s">> THEN NoMatch
      ELSE IF ks = {} THEN NoMatch
      ELSE [ok |-> TRUE, cap |-> SubSeq(s, p5, k + 2), end |-> k + 2]

\* [...text.matchAll(regex)].map((m) => m[1]): the captures of the
\* successive leftmost matches, each search resuming after the last match
RECURSIVE labelMatchAll(_, _, _)
labelMatchAll(s, label, p) ==
  IF p > Len(s) THEN <<>>
  ELSE LET m == labelRegexAt(s, label, p)
       IN  IF m.ok THEN <<m.cap>> \o labelMatchAll(s, label, m.end + 1)
           ELSE labelMatchAll(s, label, p + 1)

\* App.js line 57
totalRegex == <<"t", "o", "t", "a", "l">>

\* App.js line 58
tipRegex == <<"t", "i", "p">>

\* App.js lines 60-61
totalsOf(text) ==
  LET caps == labelMatchAll(text, totalRegex, 1)
  IN  [i \in 1..Len(caps) |-> moneyToFloat(caps[i])]

tipsOf(text) ==
  LET caps == labelMatchAll(text, tipRegex, 1)
  IN  [i \in 1..Len(caps) |-> moneyToFloat(caps[i])]

Row(type, amount) == [type |-> type, amount |-> amount]

\* App.js lines 66-85: one loop round pushes totals[i], then tips[i]
RECURSIVE pairRows(_, _, _, _)
pairRows(totals, tips, i, n) ==
  IF i > n THEN <<>>
  ELSE (IF i <= Len(totals)
          THEN <<Row("Credit Sale", toFixed2(totals[i]))>> ELSE <<>>)
       \o (IF i <= Len(tips)
             THEN <<Row("Tip", toFixed2(tips[i]))>> ELSE <<>>)
       \o pairRows(totals, tips, i + 1, n)

\* strategyA with the loop bound Math.min in place of Math.max
strategyA_minLoop(totals, tips) ==
  pairRows(totals, tips, 1,
           IF Len(totals) <= Len(tips) THEN Len(totals) ELSE Len(tips))

strategyA(totals, tips) ==
  pairRows(totals, tips, 1,
           IF Len(totals) >= Len(tips) THEN Len(totals) ELSE Len(tips))

(* ------------------- Strategy B: keyword lines ------------------------- *)

\* One attempt of /\$?(\d+\.\d{1,2}|\d+)/ at position p: the index of the
\* last character of the match, 0 when there is none
moneyRegexAt(s, p) ==
  LET p0 == IF s[p] = "$" THEN p + 1 ELSE p
      d  == RunEnd(s, p0, Digits)
  IN  IF p0 > Len(s) \/ d = p0 THEN 0
      ELSE IF d + 1 <= Len(s) /\ s[d] = "." /\ s[d + 1] \in Digits
             THEN (IF d + 2 <= Len(s) /\ s[d + 2] \in Digits
                     THEN d + 2 ELSE d + 1)
      ELSE d - 1

\* line.match(moneyRegex) with the g flag: every match, as matched text
RECURSIVE moneyMatches(_, _)
moneyMatches(s, p) ==
  IF p > Len(s) THEN <<>>
  ELSE LET e == moneyRegexAt(s, p)
       IN  IF e > 0 THEN <<SubSeq(s, p, e)>> \o moneyMatches(s, e + 1)
           ELSE moneyMatches(s, p + 1)

\* App.js line 91
RECURSIVE trimmedNonEmpty(_)
trimmedNonEmpty(ls) ==
  IF ls = <<>> THEN <<>>
  ELSE (IF trim(Head(ls)) = <<>> THEN <<>> ELSE <<trim(Head(ls))>>)
         \o trimmedNonEmpty(Tail(ls))

linesOf(text) == trimmedNonEmpty(splitLines(text))

\* App.js lines 96-101
hasKeyword(lower) ==
  \/ includes(lower, <<"c", "r", "e", "d", "i", "t">>)
  \/ includes(lower, <<"c", "a", "r", "d">>)
  \/ includes(lower, <<"c", "h", "a", "r", "g", "e">>)
  \/ includes(lower, <<"t", "i", "p">>)

\* isTipLine with the sale keywords taking precedence over 'tip'
isTipLine_saleWins(lower) ==
  /\ includes(lower, <<"t", "i", "p">>)
  /\ ~includes(lower, <<"c", "a", "r", "d">>)

\* App.js line 107
isTipLine(lower) == includes(lower, <<"t", "i", "p">>)

\* App.js lines 93-111: the results array
RECURSIVE lineResults(_)
lineResults(ls) ==
  IF ls = <<>> THEN <<>>
  ELSE LET line == Head(ls)
           lower == toLowerCase(line)
           matches == moneyMatches(line, 1)
       IN  (IF hasKeyword(lower) /\ matches # <<>>
              THEN <<[lineText |-> line,
                      amounts |-> [k \in 1..Len(matches) |->
                                     parseFloat(removeFirstDollar(matches[k]))],
                      isTipLine |-> isTipLine(lower)]>>
              ELSE <<>>)
           \o lineResults(Tail(ls))

\* App.js lines 114-122
RECURSIVE resultRows(_)
resultRows(results) ==
  IF results = <<>> THEN <<>>
  ELSE LET r == Head(results)
       IN  [k \in 1..Len(r.amounts) |->
              Row(IF r.isTipLine THEN "Tip" ELSE "Credit Sale",
                  toFixed2(r.amounts[k]))]
           \o resultRows(Tail(results))

strategyB(text) == resultRows(lineResults(linesOf(text)))

\* useStrategyA with && in place of ||
useStrategyA_bothNeeded(totals, tips) == Len(totals) > 0 /\ Len(tips) > 0

\* App.js line 64
useStrategyA(totals, tips) == Len(totals) > 0 \/ Len(tips) > 0

\* App.js lines 60-125: the rows handed to setCcData
extractRows(text) ==
  LET totals == totalsOf(text)
      tips == tipsOf(text)
  IN  IF useStrategyA(totals, tips) THEN strategyA(totals, tips)
      ELSE strategyB(text)

(* ------------------------- derived totals ------------------------------ *)

\* App.js lines 155-157: filter by type, then reduce from 0
RECURSIVE sumOfType(_, _, _)
sumOfType(rows, type, acc) ==
  IF rows = <<>> THEN acc
  ELSE sumOfType(Tail(rows), type,
                 IF Head(rows).type = type
                   THEN NumAdd(acc, parseFloat(Head(rows).amount)) ELSE acc)

totalSales(rows) == sumOfType(rows, "Credit Sale", Num(0, 0))

\* totalTips with the filter of totalSales
totalTips_saleFilter(rows) == sumOfType(rows, "Credit Sale", Num(0, 0))

\* App.js lines 159-161
totalTips(rows) == sumOfType(rows, "Tip", Num(0, 0))

(* --------------------- the receipts photographed ----------------------- *)

\* A receipt is a sequence of printed pieces; a piece is a label, a gap, a
\* currency marker, a gap, a numeral and a tail.  The recognized text of a
\* receipt is the concatenation of its pieces.
Piece(label, gap1, marker, gap2, numeral, tail) ==
  [label |-> label, gap1 |-> gap1, marker |-> marker, gap2 |-> gap2,
   numeral |-> numeral, tail |-> tail]

SP == <<" ">>

NL == <<"\n">>

Menu ==
  << Piece(<<"T","o","t","a","l">>, SP, <<"U","S","$">>, SP,
           <<"1",".","5","0">>, NL),
     Piece(<<"T","i","p">>, SP, <<"U","S","$">>, <<>>,
           <<"0",".","2","5">>, NL),
     Piece(<<"T","O","T","A","L">>, NL, <<"u","s">>, SP,
           <<"1",",","2","3","4",".","5","6">>, NL),
     Piece(<<"t","i","p">>, SP, <<"u","s">>, SP,
           <<".",".","1","2">>, NL),
     Piece(<<"T","o","t","a","l">>, SP, <<"$">>, <<>>,
           <<"2",".","0","0">>, NL),
     Piece(<<"T","i","p"," ","o","n"," ","C","a","r","d",":">>, SP, <<"$">>,
           <<>>, <<"3",".","0","0">>, NL),
     Piece(<<"C","r","e","d","i","t"," ","C","a","r","d">>, SP, <<"$">>,
           <<>>, <<"1","2",".","3","4">>, <<" ","7"," ">>),
     Piece(<<"t","i","p">>, SP, <<>>, <<>>,
           <<"4",".","0","0">>, NL) >>

MaxPieces == 3

Receipts == UNION {[1..n -> 1..Len(Menu)] : n \in 0..MaxPieces}

pieceText(p) == p.label \o p.gap1 \o p.marker \o p.gap2 \o p.numeral \o p.tail

\* worker.recognize(dataURL).data.text for the photograph of a receipt
recognizedText(receipt) ==
  flatten([i \in 1..Len(receipt) |-> pieceText(Menu[receipt[i]])])

(* ------------------------------- state --------------------------------- *)

VARIABLES
  ocrResult,      \* useState(null): <<>> is null, <<text>> a string
  isLoading,      \* useState(false)
  ccData,         \* useState([]): the rows of the results table
  noDataFound,    \* useState(false)
  picker,         \* the file dialog opened by inputRef.current.click()
  pc,             \* where the pending handleFileChange call is suspended
  file,           \* the file held by the hidden input: <<>> none, <<receipt>>
  closureCcData,  \* the ccData the pending or last call closed over
  lastOp,         \* the handler step taken last
  scans           \* files selected so far, counted up to MaxScans

vars == <<ocrResult, isLoading, ccData, noDataFound, picker, pc, file,
          closureCcData, lastOp, scans>>

MaxScans == 2

Null == <<>>

\* !ocrResult: null and the empty string are falsy
falsy(v) == IF v = Null THEN TRUE ELSE v[1] = <<>>

(* ------------------------------- render -------------------------------- *)

\* App.js line 164: the early return with the Try Again button
noDataScreen(nd, loading, rows) == nd /\ ~loading /\ Len(rows) = 0

\* startButton shown beside the results table as well
startButton_besideTable(ocr, loading, rows) == ~loading

\* App.js line 185
startButton(ocr, loading, rows) == falsy(ocr) /\ ~loading /\ Len(rows) = 0

\* App.js line 191: the table with the Scan Another Receipt button
resultsTable(rows) == Len(rows) > 0

StartShown ==
  /\ ~noDataScreen(noDataFound, isLoading, ccData)
  /\ startButton(ocrResult, isLoading, ccData)

TryAgainShown ==
  IF noDataScreen(noDataFound, isLoading, ccData) THEN TRUE
  ELSE resultsTable(ccData)

(* ------------------------------ handlers ------------------------------- *)

Init ==
  /\ ocrResult = Null
  /\ isLoading = FALSE
  /\ ccData = <<>>
  /\ noDataFound = FALSE
  /\ picker = FALSE
  /\ pc = "idle"
  /\ file = Null
  /\ closureCcData = <<>>
  /\ lastOp = "init"
  /\ scans = 0

\* App.js lines 141-145
handleStart ==
  /\ ~picker
  /\ StartShown
  /\ picker' = TRUE
  /\ lastOp' = "handleStart"
  /\ UNCHANGED <<ocrResult, isLoading, ccData, noDataFound, pc, file,
                 closureCcData, scans>>

\* App.js lines 37-38: the dialog closes without a file
handleFileChangeNoFile ==
  /\ picker
  /\ picker' = FALSE
  /\ lastOp' = "noFile"
  /\ UNCHANGED <<ocrResult, isLoading, ccData, noDataFound, pc, file,
                 closureCcData, scans>>

\* App.js lines 37-50: up to the await of the FileReader promise
handleFileChange ==
  /\ picker
  /\ \E f \in Receipts : file' = <<f>>
  /\ picker' = FALSE
  /\ isLoading' = TRUE
  /\ ocrResult' = Null
  /\ ccData' = <<>>
  /\ noDataFound' = FALSE
  /\ closureCcData' = ccData
  /\ pc' = "reading"
  /\ lastOp' = "handleFileChange"
  /\ scans' = IF scans < MaxScans THEN scans + 1 ELSE scans

\* App.js line 48: r.onload resolves the promise, recognize is called
readerOnload ==
  /\ pc = "reading"
  /\ pc' = "recognizing"
  /\ lastOp' = "readerOnload"
  /\ UNCHANGED <<ocrResult, isLoading, ccData, noDataFound, picker, file,
                 closureCcData, scans>>

\* App.js lines 46-50: no onerror handler, the promise is never settled
readerError ==
  /\ pc = "reading"
  /\ pc' = "hung"
  /\ lastOp' = "readerError"
  /\ UNCHANGED <<ocrResult, isLoading, ccData, noDataFound, picker, file,
                 closureCcData, scans>>

\* noDataAfterScan without the setNoDataFound(true) after a scan
noDataAfterScan_neverSet(closed, rows, nd) == nd

\* App.js lines 127-130: ccData is the value the handler closed over
noDataAfterScan(closed, rows, nd) == IF Len(closed) = 0 THEN TRUE ELSE nd

\* App.js lines 52-130 and 134-137: recognize resolves; the finally block
\* ends the loading state and empties the hidden input
recognizeResolved ==
  /\ pc = "recognizing"
  /\ LET text == recognizedText(file[1])
         usedA == useStrategyA(totalsOf(text), tipsOf(text))
         rowData == extractRows(text)
     IN  /\ ocrResult' = <<text>>
         /\ ccData' = rowData
         /\ noDataFound' = noDataAfterScan(closureCcData, rowData, noDataFound)
         /\ lastOp' = IF usedA THEN "strategyA" ELSE "strategyB"
  /\ isLoading' = FALSE
  /\ file' = Null
  /\ pc' = "idle"
  /\ UNCHANGED <<picker, closureCcData, scans>>

\* noDataAfterCatch without the setNoDataFound(true) of the catch branch
noDataAfterCatch_unset(nd) == nd

\* App.js lines 131-133: the flag the catch branch sets
noDataAfterCatch(nd) == TRUE

\* App.js lines 52 and 131-137: recognize rejects
recognizeRejected ==
  /\ pc = "recognizing"
  /\ noDataFound' = noDataAfterCatch(noDataFound)
  /\ isLoading' = FALSE
  /\ pc' = "idle"
  /\ lastOp' = "catch"
  /\ file' = Null
  /\ UNCHANGED <<ocrResult, ccData, picker, closureCcData, scans>>

\* handleTryAgain without setOcrResult(null)
handleTryAgain_keepsOcr ==
  /\ ~picker
  /\ TryAgainShown
  /\ noDataFound' = FALSE
  /\ ccData' = <<>>
  /\ isLoading' = FALSE
  /\ lastOp' = "handleTryAgain"
  /\ UNCHANGED <<ocrResult, picker, pc, file, closureCcData, scans>>

\* App.js lines 147-152
handleTryAgain ==
  /\ ~picker
  /\ TryAgainShown
  /\ noDataFound' = FALSE
  /\ ocrResult' = Null
  /\ ccData' = <<>>
  /\ isLoading' = FALSE
  /\ lastOp' = "handleTryAgain"
  /\ UNCHANGED <<picker, pc, file, closureCcData, scans>>

Next ==
  \/ handleStart
  \/ handleFileChangeNoFile
  \/ handleFileChange
  \/ readerOnload
  \/ readerError
  \/ recognizeResolved
  \/ recognizeRejected
  \/ handleTryAgain

Spec == Init /\ [][Next]_vars

\* The file reader eventually reports the end of the read, by its load or
\* by its error event, and the OCR worker eventually settles the promise
\* of recognize, by resolving or by rejecting it.
LiveSpec ==
  /\ Spec
  /\ WF_vars(readerOnload \/ readerError)
  /\ WF_vars(recognizeRejected \/ recognizeResolved)

(* ------------------------------ properties ----------------------------- *)

\* a scan has just completed without an exception
Scanned == lastOp \in {"strategyA", "strategyB"}

\* the recognized text of the completed scan
ScannedText == ocrResult[1]

MinOf(a, b) == IF a <= b THEN a ELSE b

SaleRow(x) == Row("Credit Sale", toFixed2(x))

TipRow(x) == Row("Tip", toFixed2(x))

\* C1 as stated: Strategy A outputs exactly min(m, n) sale/tip pairs, the
\* i-th pair being (totals[i], tips[i]); totals and tips beyond the
\* shorter list produce no record.
C1_MinPairsOnly ==
  lastOp = "strategyA" =>
    LET totals == totalsOf(ScannedText)
        tips == tipsOf(ScannedText)
        k == MinOf(Len(totals), Len(tips))
    IN  /\ Len(ccData) = 2 * k
        /\ \A i \in 1..k : /\ ccData[2 * i - 1] = SaleRow(totals[i])
                           /\ ccData[2 * i] = TipRow(tips[i])

\* C1 as amended: Strategy A outputs one row per labelled match, m + n rows
\* in all: for i below min(m, n) the sale row of totals[i] directly followed
\* by the tip row of tips[i], then the surplus totals or tips in order of
\* appearance; no total and no tip is dropped.
C1_AllMatchesKept ==
  lastOp = "strategyA" =>
    LET totals == totalsOf(ScannedText)
        tips == tipsOf(ScannedText)
        m == Len(totals)
        n == Len(tips)
        k == MinOf(m, n)
    IN  /\ Len(ccData) = m + n
        /\ \A i \in 1..k : /\ ccData[2 * i - 1] = SaleRow(totals[i])
                           /\ ccData[2 * i] = TipRow(tips[i])
        /\ \A i \in (k + 1)..m : ccData[k + i] = SaleRow(totals[i])
        /\ \A i \in (k + 1)..n : ccData[k + i] = TipRow(tips[i])

\* C1 witness: Strategy A ran on a text with more totals than tips and at
\* least one tip, and the surplus total has a row of its own.
C1_Witness ==
  /\ lastOp = "strategyA"
  /\ Len(tipsOf(ScannedText)) >= 1
  /\ Len(totalsOf(ScannedText)) > Len(tipsOf(ScannedText))
  /\ ccData[Len(ccData)].type = "Credit Sale"

\* C2 as stated: the rows come from Strategy B whenever Strategy A yields
\* zero pairs (min(m, n) = 0).
C2_FallbackOnZeroPairs ==
  Scanned =>
    LET totals == totalsOf(ScannedText)
        tips == tipsOf(ScannedText)
    IN  MinOf(Len(totals), Len(tips)) = 0 =>
          /\ lastOp = "strategyB"
          /\ ccData = strategyB(ScannedText)

\* C2 as amended: the rows come from Strategy B exactly when Strategy A
\* finds no total and no tip match; with at least one total or tip match,
\* paired or not, the rows are Strategy A's and Strategy B is not run; the
\* rows are always the output of exactly one strategy.
C2_FallbackOnNoMatch ==
  Scanned =>
    LET totals == totalsOf(ScannedText)
        tips == tipsOf(ScannedText)
    IN  IF Len(totals) = 0 /\ Len(tips) = 0
          THEN lastOp = "strategyB" /\ ccData = strategyB(ScannedText)
          ELSE lastOp = "strategyA" /\ ccData = strategyA(totals, tips)

\* C2 witness: a text with a total but no tip match, where Strategy B would
\* have produced rows, is answered by Strategy A alone.
C2_Witness ==
  /\ lastOp = "strategyA"
  /\ Len(tipsOf(ScannedText)) = 0
  /\ strategyB(ScannedText) # <<>>
  /\ ccData # strategyB(ScannedText)

\* C3: after a scan that completed without an exception, noDataFound is
\* set if and only if no row was extracted.
C3_NoDataIffEmpty == Scanned => (noDataFound <=> Len(ccData) = 0)

\* the variables the render function reads
View(nd, loading, rows, ocr) ==
  [noDataFound |-> nd, isLoading |-> loading, ccData |-> rows,
   ocrTruthy |-> ~falsy(ocr)]

\* C4 as stated: the state the catch branch leaves differs, in the
\* variables the UI renders from, from the state the same scan would have
\* left had recognition succeeded with a text that yields no row.
C4_FailureDistinct ==
  [][recognizeRejected =>
       LET text == recognizedText(file[1])
           rows == extractRows(text)
       IN  rows = <<>> =>
             View(noDataFound', isLoading', ccData', ocrResult')
               # View(noDataAfterScan(closureCcData, rows, noDataFound),
                      FALSE, rows, <<text>>)]_vars

\* C4 as amended: an exception while recognizing leaves the application on
\* the same no-data screen as a successful scan without rows: noDataFound
\* true, isLoading false, ccData empty, Try Again offered; the two states
\* can differ only in ocrResult, which that screen does not render.
C4_FailureIsNoData ==
  (lastOp = "catch" \/ (Scanned /\ Len(ccData) = 0)) =>
    /\ noDataFound
    /\ ~isLoading
    /\ ccData = <<>>
    /\ noDataScreen(noDataFound, isLoading, ccData)
    /\ ~StartShown

\* C4 witness: the catch branch has run and the no-data screen is shown.
C4_Witness ==
  /\ lastOp = "catch"
  /\ ocrResult = Null
  /\ noDataScreen(noDataFound, isLoading, ccData)

NaNText == <<"N", "a", "N">>

\* C5: every numeral captured by the total and tip patterns normalizes to
\* a number, and no row carries a NaN amount.
C5_NeverNaN ==
  /\ \A i \in 1..Len(ccData) : ccData[i].amount # NaNText
  /\ lastOp = "strategyA" =>
       /\ \A i \in 1..Len(totalsOf(ScannedText)) : ~totalsOf(ScannedText)[i].nan
       /\ \A i \in 1..Len(tipsOf(ScannedText)) : ~tipsOf(ScannedText)[i].nan

\* the numerals of the pieces of a receipt whose label is the given word in
\* any letter case and whose currency marker, lowercased, is in markers
RECURSIVE labelledNumerals(_, _, _)
labelledNumerals(receipt, label, markers) ==
  IF receipt = <<>> THEN <<>>
  ELSE LET p == Menu[Head(receipt)]
       IN  (IF toLowerCase(p.label) = label /\ toLowerCase(p.marker) \in markers
              THEN <<p.numeral>> ELSE <<>>)
           \o labelledNumerals(Tail(receipt), label, markers)

SeqToSet(xs) == {xs[i] : i \in 1..Len(xs)}

MarkersClaimed == {<<"u", "s", "$">>, <<"$">>, <<>>}

MarkersMatched == {<<"u", "s", "$">>, <<"u", "s">>}

\* C6 as stated: a 'total' (resp. 'tip') label followed by a two-fractional-
\* digit decimal is collected whether the marker between them is 'US$',
\* '$' or absent.
C6_AnyMarkerCollected ==
  [][recognizeResolved =>
       LET text == recognizedText(file[1])
       IN  /\ SeqToSet(labelledNumerals(file[1], totalRegex, MarkersClaimed))
                \subseteq SeqToSet(labelMatchAll(text, totalRegex, 1))
           /\ SeqToSet(labelledNumerals(file[1], tipRegex, MarkersClaimed))
                \subseteq SeqToSet(labelMatchAll(text, tipRegex, 1))]_vars

\* C6 as amended: a 'total' (resp. 'tip') label in any letter case, followed
\* by any white space and a two-fractional-digit decimal, is collected when
\* and only when the letters 'us' (any case), with or without a following
\* '$', stand between label and number; with '$' alone or no marker it is
\* not collected.  The matches are collected in order of appearance.
C6_UsMarkerRequired ==
  [][recognizeResolved =>
       LET text == recognizedText(file[1])
       IN  /\ labelMatchAll(text, totalRegex, 1)
                = labelledNumerals(file[1], totalRegex, MarkersMatched)
           /\ labelMatchAll(text, tipRegex, 1)
                = labelledNumerals(file[1], tipRegex, MarkersMatched)]_vars

\* C6 witness: a scanned text holds a total with the marker 'us' and a total
\* with the marker '$'; only the first was collected.
C6_Witness ==
  /\ lastOp = "strategyA"
  /\ includes(ScannedText, <<"T","O","T","A","L","\n","u","s"," ","1">>)
  /\ includes(ScannedText, <<"T","o","t","a","l"," ","$","2",".","0","0">>)
  /\ Len(totalsOf(ScannedText)) = 1

\* the hundredths of a table amount "d...d.dd"
amountCents(a) == DigitsToNat(SubSeq(a, 1, Len(a) - 3) \o SubSeq(a, Len(a) - 1, Len(a)))

RECURSIVE centsSum(_, _)
centsSum(rows, idx) ==
  IF idx = {} THEN 0
  ELSE LET i == CHOOSE j \in idx : TRUE
       IN  amountCents(rows[i].amount) + centsSum(rows, idx \ {i})

\* the displayed total agrees with the sum of the amounts of the rows of
\* one type; a NaN amount makes the sum NaN
sumAgrees(total, rows, type) ==
  LET idx == {i \in 1..Len(rows) : rows[i].type = type}
  IN  IF \E i \in idx : rows[i].amount = NaNText
        THEN toFixed2(total) = NaNText
        ELSE /\ ~total.nan
             /\ total.e <= 2
             /\ total.m * Pow10(2 - total.e) = centsSum(rows, idx)
             /\ amountCents(toFixed2(total)) = centsSum(rows, idx)

\* C7: in every state the displayed total sale is the sum of the amounts
\* of the Credit Sale rows of ccData, the displayed total tip the sum of
\* the amounts of its Tip rows, and both read 0.00 when ccData is empty.
C7_TotalsDerived ==
  /\ sumAgrees(totalSales(ccData), ccData, "Credit Sale")
  /\ sumAgrees(totalTips(ccData), ccData, "Tip")
  /\ ccData = <<>> =>
       /\ toFixed2(totalSales(ccData)) = <<"0", ".", "0", "0">>
       /\ toFixed2(totalTips(ccData)) = <<"0", ".", "0", "0">>

\* C7 witness: the table shows at least two sale rows and a tip row with
\* different sums.
C7_Witness ==
  /\ Cardinality({i \in 1..Len(ccData) : ccData[i].type = "Credit Sale"}) >= 2
  /\ \E i \in 1..Len(ccData) : ccData[i].type = "Tip"
  /\ ~totalSales(ccData).nan
  /\ ~totalTips(ccData).nan
  /\ toFixed2(totalSales(ccData)) # toFixed2(totalTips(ccData))

Keywords ==
  { <<"c", "r", "e", "d", "i", "t">>, <<"c", "a", "r", "d">>,
    <<"c", "h", "a", "r", "g", "e">>, <<"t", "i", "p">> }

\* the rows one keyword line contributes
lineRows(line) ==
  LET lower == toLowerCase(line)
      tokens == moneyMatches(line, 1)
  IN  IF \E kw \in Keywords : includes(lower, kw)
        THEN [k \in 1..Len(tokens) |->
                Row(IF includes(lower, <<"t", "i", "p">>) THEN "Tip"
                    ELSE "Credit Sale",
                    toFixed2(parseFloat(removeFirstDollar(tokens[k]))))]
        ELSE <<>>

\* C8: Strategy B yields one row per money token of each non-empty trimmed
\* keyword line, in line order then token order, nothing from other lines;
\* all rows of a line are Tip rows if the line contains 'tip', else sale
\* rows.
C8_KeywordLineRows ==
  lastOp = "strategyB" =>
    LET lines == linesOf(ScannedText)
    IN  ccData = flatten([i \in 1..Len(lines) |-> lineRows(lines[i])])

\* C8 witness: Strategy B ran on a text with a line containing both 'tip'
\* and 'card' and several money tokens, and a money line without keyword.
C8_Witness ==
  /\ lastOp = "strategyB"
  /\ \E i \in 1..Len(linesOf(ScannedText)) :
       LET lower == toLowerCase(linesOf(ScannedText)[i])
       IN  /\ includes(lower, <<"t", "i", "p">>)
           /\ includes(lower, <<"c", "a", "r", "d">>)
  /\ \E i \in 1..Len(linesOf(ScannedText)) :
       LET line == linesOf(ScannedText)[i]
       IN  lineRows(line) = <<>> /\ moneyMatches(line, 1) # <<>>
  /\ Len(ccData) >= 3
  /\ \A i \in 1..Len(ccData) : ccData[i].type = "Tip"

\* the state the first scan of a text leaves, starting from the initial
\* state of the component
firstScan(text) ==
  LET rows == extractRows(text)
  IN  [ocrResult |-> <<text>>, ccData |-> rows,
       noDataFound |-> noDataAfterScan(<<>>, rows, FALSE),
       totalSales |-> totalSales(rows), totalTips |-> totalTips(rows),
       noDataScreen |-> noDataScreen(noDataAfterScan(<<>>, rows, FALSE),
                                     FALSE, rows)]

\* C9: whatever scans and resets came before, a completed scan leaves the
\* rows, totals, flag and screen that the first scan of the same text
\* leaves.
C9_ScanIndependent ==
  Scanned =>
    LET first == firstScan(ScannedText)
    IN  /\ ocrResult = first.ocrResult
        /\ ccData = first.ccData
        /\ noDataFound = first.noDataFound
        /\ totalSales(ccData) = first.totalSales
        /\ totalTips(ccData) = first.totalTips
        /\ noDataScreen(noDataFound, isLoading, ccData) = first.noDataScreen
        /\ closureCcData = <<>>

\* C9 witness: a second scan has completed with rows.
C9_Witness ==
  /\ Scanned
  /\ scans >= 2
  /\ ccData # <<>>

\* C10: after handleTryAgain, invoked from the no-data screen or from the
\* results table, the component is in its initial state and shows Start.
C10_ResetIsInitial ==
  lastOp = "handleTryAgain" =>
    /\ noDataFound = FALSE
    /\ ocrResult = Null
    /\ ccData = <<>>
    /\ isLoading = FALSE
    /\ picker = FALSE
    /\ pc = "idle"
    /\ file = Null
    /\ StartShown

\* C10 witness: handleTryAgain has run after a scan.
C10_Witness ==
  /\ lastOp = "handleTryAgain"
  /\ scans >= 1
  /\ StartShown

\* C11: every file selection that sets isLoading is eventually followed by
\* a state with isLoading = false, whether the file read completes or
\* fails and whether recognition returns a text or throws.
C11_LoadingEnds == isLoading ~> ~isLoading

\* the three screens of an idle component
StartScreen == StartShown

NoDataScreen == noDataScreen(noDataFound, isLoading, ccData)

TableScreen ==
  /\ ~noDataScreen(noDataFound, isLoading, ccData)
  /\ resultsTable(ccData)

ScreensShown ==
  {n \in {"start", "noData", "table"} :
     \/ n = "start" /\ StartScreen
     \/ n = "noData" /\ NoDataScreen
     \/ n = "table" /\ TableScreen}

\* C12: in every state with isLoading = false exactly one of the Start
\* button, the no-data screen with Try Again and the results table with
\* Scan Another Receipt is shown, so handleStart or handleTryAgain can be
\* invoked; no idle state has a non-empty ocrResult together with an empty
\* ccData and noDataFound = false.
C12_NoDeadEnd ==
  ~isLoading =>
    /\ Cardinality(ScreensShown) = 1
    /\ (picker \/ ENABLED handleStart \/ ENABLED handleTryAgain)
    /\ ~(~falsy(ocrResult) /\ ccData = <<>> /\ ~noDataFound)

\* C12 witness: a scan has recognized a non-empty text without any row,
\* and the no-data screen with Try Again is what is shown.
C12_Witness ==
  /\ Scanned
  /\ ~isLoading
  /\ ~falsy(ocrResult)
  /\ ccData = <<>>
  /\ ScreensShown = {"noData"}

====
